---- MODULE Spec2Model ----
(***************************************************************************)
(* A model of poster.py, the scheduled Bluesky posting agent.              *)
(*                                                                         *)
(* Strings are sequences of characters; a character is a one-character     *)
(* string, except for three characters outside ASCII which carry a name:   *)
(* "EACUTE" (U+00E9), "EURO" (U+20AC) and "GRIN" (U+1F600).                *)
(***************************************************************************)
EXTENDS Integers, Sequences, FiniteSets, TLC

VARIABLES
    posts,        \* the rows of posts.csv, in file order
    stateFile,    \* what state.json holds on disk
    pc,           \* the statement the run is at
    exitCode,     \* the status the process ended with, -1 while it runs
    creds,        \* whether BLUESKY_HANDLE and BLUESKY_APP_PASSWORD are both set
    nextIndex,    \* main's next_index, -1 before it is computed
    post,         \* the catalog row handed to create_post_content
    content,      \* the text create_post_content returned
    facets,       \* post_data["facets"]: url facets followed by hashtag facets
    metaImage,    \* metadata['image'] is set
    image,        \* the downloaded image: bytes, declared content type
    attempts,     \* the encodings resize_image_if_needed has produced so far
    processed,    \* what resize_image_if_needed returned
    upload,       \* the body and Content-Type of the uploadBlob request
    blob,         \* upload_image_blob returned a blob reference
    calls,        \* the network calls of this run, in order
    failed,       \* the failures this run has met
    runStart,     \* state.json as it was when this run began
    lastFail,     \* the index the previous run selected, when that run failed
    streakStart,  \* last_row_index before the current streak of successful runs
    streak        \* the indices posted by the current streak of successful runs

vars == <<posts, stateFile, pc, exitCode, creds, nextIndex, post, content, facets,
          metaImage, image, attempts, processed, upload, blob, calls, failed,
          runStart, lastFail, streakStart, streak>>

(***************************************************************************)
(* Characters and strings                                                  *)
(***************************************************************************)

\* The Unicode code point of each character the model uses.
CodePoint ==
    [c \in {"\n", " ", "#", ".", "/", ":", "_", "1", "S", "T", "a", "b", "c", "e",
            "h", "o", "p", "s", "t", "x", "y", "EACUTE", "EURO", "GRIN"} |->
        CASE c = "\n" -> 10 [] c = " " -> 32 [] c = "#" -> 35 [] c = "." -> 46
          [] c = "/" -> 47 [] c = ":" -> 58 [] c = "_" -> 95 [] c = "1" -> 49
          [] c = "S" -> 83 [] c = "T" -> 84 [] c = "a" -> 97 [] c = "b" -> 98
          [] c = "c" -> 99 [] c = "e" -> 101 [] c = "h" -> 104 [] c = "o" -> 111
          [] c = "p" -> 112 [] c = "s" -> 115 [] c = "t" -> 116 [] c = "x" -> 120
          [] c = "y" -> 121 [] c = "EACUTE" -> 233 [] c = "EURO" -> 8364
          [] c = "GRIN" -> 128512]

\* str.strip() and the regex class \s: whitespace.
IsSpace(c) == c \in {" ", "\n"}

\* The regex class \w on a str pattern: Unicode letters, digits and underscore.
IsWord(c) == c \in {"_", "1", "S", "T", "a", "b", "c", "e", "h", "o", "p", "s", "t",
                    "x", "y", "EACUTE"}

\* s[:n]
Take(s, n) == SubSeq(s, 1, IF n < Len(s) THEN n ELSE Len(s))

RECURSIVE LStrip(_)
LStrip(s) == IF s # <<>> /\ IsSpace(Head(s)) THEN LStrip(Tail(s)) ELSE s

RECURSIVE RStrip(_)
RStrip(s) ==
    IF s # <<>> /\ IsSpace(s[Len(s)]) THEN RStrip(SubSeq(s, 1, Len(s) - 1)) ELSE s

\* str.strip()
Strip(s) == RStrip(LStrip(s))

\* c * n
Repeat(c, n) == [i \in 1..n |-> c]

\* The bytes str.encode('utf-8') gives for one code point.
Utf8Char(cp) ==
    IF cp < 128 THEN <<cp>>
    ELSE IF cp < 2048 THEN <<192 + (cp \div 64), 128 + (cp % 64)>>
    ELSE IF cp < 65536 THEN
        <<224 + (cp \div 4096), 128 + ((cp \div 64) % 64), 128 + (cp % 64)>>
    ELSE <<240 + (cp \div 262144), 128 + ((cp \div 4096) % 64),
           128 + ((cp \div 64) % 64), 128 + (cp % 64)>>

\* s.encode('utf-8')
RECURSIVE Utf8(_)
Utf8(s) == IF s = <<>> THEN <<>> ELSE Utf8Char(CodePoint[Head(s)]) \o Utf8(Tail(s))

(***************************************************************************)
(* create_post_content                                                     *)
(***************************************************************************)

\* The ceiling create_post_content compares len(content) with.
PostLimit == 300

\* "\n\n"
Sep == <<"\n", "\n">>

\* create_post_content exits with status 1: title or url is empty once stripped.
MissingField(p) == Strip(p.title) = <<>> \/ Strip(p.url) = <<>>

\* The text create_post_content returns for a row with a title and a url.
create_post_content(p) ==
    LET title == Strip(p.title)
        url == Strip(p.url)
        hashtags == Strip(p.hashtags)
        head == title \o Sep \o url \o Sep
        full == head \o hashtags
        max_hashtags_length == PostLimit - Len(head)
    IN  IF Len(full) > PostLimit
        THEN IF max_hashtags_length > 0
             THEN head \o Strip(Take(hashtags, max_hashtags_length))
             ELSE title \o Sep \o url
        ELSE full

(***************************************************************************)
(* extract_url_facets, extract_hashtag_facets, extract_first_url           *)
(***************************************************************************)

\* s has the characters of lit at positions i, i+1, ...
HasAt(s, i, lit) ==
    /\ i + Len(lit) - 1 <= Len(s)
    /\ \A k \in 1..Len(lit) : s[i + k - 1] = lit[k]

\* The end of the longest run of characters satisfying the class that starts at
\* position i (i - 1 when the run is empty).
RECURSIVE NonSpaceRunEnd(_, _)
NonSpaceRunEnd(s, i) ==
    IF i <= Len(s) /\ ~IsSpace(s[i]) THEN NonSpaceRunEnd(s, i + 1) ELSE i - 1

RECURSIVE WordRunEnd(_, _)
WordRunEnd(s, i) ==
    IF i <= Len(s) /\ IsWord(s[i]) THEN WordRunEnd(s, i + 1) ELSE i - 1

\* re.match of https?://\S+ at position i: the last position of the match, 0 when
\* there is none.
UrlMatchEnd(s, i) ==
    LET http == <<"h", "t", "t", "p">>
        css == <<":", "/", "/">>
        body == IF HasAt(s, i, http \o <<"s">> \o css) THEN i + 8
                ELSE IF HasAt(s, i, http \o css) THEN i + 7
                ELSE 0
    IN  IF body # 0 /\ NonSpaceRunEnd(s, body) >= body
        THEN NonSpaceRunEnd(s, body) ELSE 0

\* re.match of #\w+ at position i: the last position of the match, 0 when none.
HashtagMatchEnd(s, i) ==
    IF HasAt(s, i, <<"#">>) /\ WordRunEnd(s, i + 1) >= i + 1
    THEN WordRunEnd(s, i + 1) ELSE 0

\* url_pattern.finditer(content): the matches from position i on, left to right and
\* not overlapping, each as [start, end] in Python's 0-based half-open offsets.
RECURSIVE UrlMatches(_, _)
UrlMatches(s, i) ==
    IF i > Len(s) THEN <<>>
    ELSE IF UrlMatchEnd(s, i) # 0
         THEN <<[start |-> i - 1, end |-> UrlMatchEnd(s, i)]>>
              \o UrlMatches(s, UrlMatchEnd(s, i) + 1)
         ELSE UrlMatches(s, i + 1)

\* hashtag_pattern.finditer(content)
RECURSIVE HashtagMatches(_, _)
HashtagMatches(s, i) ==
    IF i > Len(s) THEN <<>>
    ELSE IF HashtagMatchEnd(s, i) # 0
         THEN <<[start |-> i - 1, end |-> HashtagMatchEnd(s, i)]>>
              \o HashtagMatches(s, HashtagMatchEnd(s, i) + 1)
         ELSE HashtagMatches(s, i + 1)

\* A byte offset that counts characters, not bytes.
ByteOffsetInChars(s, idx) == idx

\* len(content[:idx].encode('utf-8'))
ByteOffset(s, idx) == Len(Utf8(Take(s, idx)))

extract_url_facets(s) ==
    LET ms == UrlMatches(s, 1)
    IN  [k \in 1..Len(ms) |->
            [byteStart |-> ByteOffset(s, ms[k].start),
             byteEnd |-> ByteOffset(s, ms[k].end),
             type |-> "link",
             value |-> SubSeq(s, ms[k].start + 1, ms[k].end)]]

extract_hashtag_facets(s) ==
    LET ms == HashtagMatches(s, 1)
    IN  [k \in 1..Len(ms) |->
            [byteStart |-> ByteOffset(s, ms[k].start),
             byteEnd |-> ByteOffset(s, ms[k].end),
             type |-> "tag",
             value |-> SubSeq(s, ms[k].start + 2, ms[k].end)]]

\* all_facets = url_facets + hashtag_facets
all_facets(s) == extract_url_facets(s) \o extract_hashtag_facets(s)

\* extract_first_url(content) is not None
HasUrl(s) == UrlMatches(s, 1) # <<>>

(***************************************************************************)
(* The files and the environment of a run                                  *)
(***************************************************************************)

\* The longest catalog the model draws.
MaxPosts == 3

\* Rows a catalog is drawn from: the row of the composer's example, a row whose url
\* is no http(s) link, and a row whose title is blank.
EntryPool ==
    {[title |-> <<"T">>,
      url |-> <<"h", "t", "t", "p", "s", ":", "/", "/", "e", ".", "c", "o">>,
      hashtags |-> <<"#", "a", " ", "#", "b">>],
     [title |-> <<"T">>, url |-> <<"a", ".", "b">>, hashtags |-> <<"#", "a">>],
     [title |-> <<" ">>,
      url |-> <<"h", "t", "t", "p", "s", ":", "/", "/", "e", ".", "c", "o">>,
      hashtags |-> <<>>]}

Catalogs == UNION {[1..n -> EntryPool] : n \in 0..MaxPosts}

\* What state.json can hold. idx is last_row_index when it is an integer.
StateKinds ==
    {"absent", "unreadable", "invalid_json", "json_nonobject", "object_no_index",
     "object_string_index", "object_null_index", "object_float_index",
     "object_int_index"}

StateFiles ==
    {[kind |-> k, idx |-> 0] : k \in StateKinds \ {"object_int_index"}}
        \cup {[kind |-> "object_int_index", idx |-> i] : i \in -1..MaxPosts}

\* json.dump(new_state, f) of update_state.
WrittenState(i) == [kind |-> "object_int_index", idx |-> i]

\* load_state() followed by state.get('last_row_index', -1) and last_index + 1:
\* whether they raise, and last_index when they do not. A file that is absent,
\* cannot be opened or is not JSON gives {}; JSON that is no object has no .get; an
\* index that is a string or null cannot be added to; a float index cannot index
\* the list of posts.
LoadRaises(f) ==
    f.kind \in {"json_nonobject", "object_string_index", "object_null_index",
                "object_float_index"}

last_index(f) == IF f.kind = "object_int_index" THEN f.idx ELSE -1

\* A selection that stops at the last row instead of wrapping around.
NextIndexNoWrap(last, n) == IF last + 1 < n THEN last + 1 ELSE n - 1

\* next_index = (last_index + 1) % len(posts)
NextIndex(last, n) == (last + 1) % n

(***************************************************************************)
(* resize_image_if_needed                                                  *)
(***************************************************************************)

MAX_IMAGE_SIZE == 950 * 1024

\* The strategies, in order; resize_factor is in tenths.
strategies ==
    <<[resize_factor |-> 10, quality |-> 70], [resize_factor |-> 10, quality |-> 60],
      [resize_factor |-> 10, quality |-> 50], [resize_factor |-> 9, quality |-> 85],
      [resize_factor |-> 8, quality |-> 85], [resize_factor |-> 7, quality |-> 80],
      [resize_factor |-> 6, quality |-> 80], [resize_factor |-> 5, quality |-> 75],
      [resize_factor |-> 4, quality |-> 70], [resize_factor |-> 3, quality |-> 65]>>

\* A size that must be below the limit, not at it.
FitsStrictly(size) == size < MAX_IMAGE_SIZE

\* original_size <= max_size, result_size <= max_size
Fits(size) == size <= MAX_IMAGE_SIZE

\* The sizes a download can have and the sizes an encoding can come out at.
ImageSizes == {1, MAX_IMAGE_SIZE, MAX_IMAGE_SIZE + 1}
EncodedSizes == {MAX_IMAGE_SIZE, MAX_IMAGE_SIZE + 1}

\* The Content-Type header of the image response; "none" when it has none.
DeclaredTypes == {"image/jpeg", "image/png", "none"}

\* Bytes are told apart by where they come from: the download, or the encoding
\* made with strategy number `strategy`.
Downloaded(size) == [src |-> "download", strategy |-> 0, size |-> size]
Encoded(k, size) == [src |-> "encoded", strategy |-> k, size |-> size]
NoBytes == [src |-> "none", strategy |-> 0, size |-> 0]

\* response.headers.get('Content-Type', 'image/jpeg')
original_content_type(declared) == IF declared = "none" THEN "image/jpeg" ELSE declared

\* The Content-Type of the uploadBlob request.
content_type(declared) == "image/jpeg"

(***************************************************************************)
(* A run of main(), statement by statement                                 *)
(***************************************************************************)

NoPost == [title |-> <<>>, url |-> <<>>, hashtags |-> <<>>]
NoImage == [data |-> NoBytes, declared |-> "none"]
NoUpload == [sent |-> FALSE, body |-> NoBytes, ctype |-> "none"]

\* The variables a run works on, as they are before its first statement.
FreshRun ==
    /\ exitCode = -1
    /\ nextIndex = -1
    /\ post = NoPost
    /\ content = <<>>
    /\ facets = <<>>
    /\ metaImage = FALSE
    /\ image = NoImage
    /\ attempts = <<>>
    /\ processed = NoBytes
    /\ upload = NoUpload
    /\ blob = FALSE
    /\ calls = <<>>
    /\ failed = {}

runVars == <<nextIndex, post, content, facets, metaImage, image, attempts, processed,
             upload, blob, calls>>
textVars == <<post, content, facets>>
imageVars == <<metaImage, image, attempts, processed, upload, blob>>
fileVars == <<posts, stateFile, creds, runStart>>
histVars == <<lastFail, streakStart, streak>>

Init ==
    /\ posts \in Catalogs
    /\ stateFile \in StateFiles
    /\ creds \in BOOLEAN
    /\ pc = "start"
    /\ FreshRun
    /\ runStart = stateFile
    /\ lastFail = -1
    /\ streakStart = last_index(stateFile)
    /\ streak = <<>>

\* sys.exit(1) before any record was created: the entry selected, if any, is the one
\* a later run has to come back to.
Abort(reason) ==
    /\ pc' = "done"
    /\ exitCode' = 1
    /\ failed' = failed \cup {reason}
    /\ lastFail' = IF nextIndex # -1 THEN nextIndex ELSE lastFail
    /\ streak' = <<>>
    /\ UNCHANGED streakStart

\* main, lines 26-28
CheckEnv ==
    /\ pc = "start"
    /\ IF ~creds
       THEN Abort("credentials")
       ELSE pc' = "load_posts" /\ UNCHANGED <<exitCode, histVars, failed>>
    /\ UNCHANGED <<fileVars, runVars>>

\* An empty catalog ends the run with status 1.
LoadPostsEmptyExitsOne ==
    /\ pc = "load_posts"
    /\ \E readable \in BOOLEAN :
        IF ~readable
        THEN Abort("catalog")
        ELSE IF Len(posts) = 0
             THEN Abort("empty")
             ELSE pc' = "load_state" /\ UNCHANGED <<exitCode, histVars, failed>>
    /\ UNCHANGED <<fileVars, runVars>>

\* main, lines 32-35, with load_posts: a catalog that cannot be read ends the run
\* with status 1, an empty one with status 0.
LoadPosts ==
    /\ pc = "load_posts"
    /\ \E readable \in BOOLEAN :
        IF ~readable
        THEN Abort("catalog")
        ELSE IF Len(posts) = 0
             THEN pc' = "done" /\ exitCode' = 0 /\ UNCHANGED <<histVars, failed>>
             ELSE pc' = "load_state" /\ UNCHANGED <<exitCode, histVars, failed>>
    /\ UNCHANGED <<fileVars, runVars>>

\* main, lines 38-43, with load_state; an exception is caught at line 57.
SelectPost ==
    /\ pc = "load_state"
    /\ IF LoadRaises(stateFile)
       THEN Abort("state") /\ UNCHANGED <<nextIndex, post>>
       ELSE /\ nextIndex' = NextIndex(last_index(stateFile), Len(posts))
            /\ post' = posts[nextIndex' + 1]
            /\ pc' = "compose"
            /\ UNCHANGED <<exitCode, histVars, failed>>
    /\ UNCHANGED <<fileVars, content, facets, imageVars, calls>>

\* main, line 46
Compose ==
    /\ pc = "compose"
    /\ IF MissingField(post)
       THEN Abort("entry") /\ UNCHANGED content
       ELSE /\ content' = create_post_content(post)
            /\ pc' = "auth"
            /\ UNCHANGED <<exitCode, histVars, failed>>
    /\ UNCHANGED <<fileVars, nextIndex, post, facets, imageVars, calls>>

\* post_to_bluesky, line 406, with get_bluesky_auth
Authenticate ==
    /\ pc = "auth"
    /\ calls' = Append(calls, "createSession")
    /\ \E ok \in BOOLEAN :
        IF ok
        THEN pc' = "build" /\ UNCHANGED <<exitCode, histVars, failed>>
        ELSE Abort("auth")
    /\ UNCHANGED <<fileVars, nextIndex, textVars, imageVars>>

\* post_to_bluesky, lines 413-429
BuildPost ==
    /\ pc = "build"
    /\ facets' = all_facets(content)
    /\ pc' = IF HasUrl(content) THEN "metadata" ELSE "create_record"
    /\ UNCHANGED <<fileVars, exitCode, histVars, nextIndex, post, content, imageVars,
                   calls, failed>>

\* get_webpage_metadata raises out of post_to_bluesky when the fetch fails.
FetchMetadataFatal ==
    /\ pc = "metadata"
    /\ calls' = Append(calls, "metadata")
    /\ \E outcome \in {"error", "no_image", "image"} :
        IF outcome = "error"
        THEN Abort("metadata") /\ UNCHANGED metaImage
        ELSE /\ metaImage' = (outcome = "image")
             /\ pc' = IF outcome = "image" THEN "download" ELSE "create_record"
             /\ UNCHANGED <<exitCode, histVars, failed>>
    /\ UNCHANGED <<fileVars, nextIndex, textVars, image, attempts, processed, upload,
                   blob>>

\* The image is downloaded whether or not the page named one.
FetchMetadataAlwaysDownloads ==
    /\ pc = "metadata"
    /\ calls' = Append(calls, "metadata")
    /\ \E outcome \in {"error", "no_image", "image"} :
        /\ metaImage' = (outcome = "image")
        /\ failed' = IF outcome = "error" THEN failed \cup {"metadata"} ELSE failed
        /\ pc' = IF outcome = "error" THEN "create_record" ELSE "download"
    /\ UNCHANGED <<fileVars, exitCode, histVars, nextIndex, textVars, image, attempts,
                   processed, upload, blob>>

\* post_to_bluesky, lines 432-449, with get_webpage_metadata: a failed fetch or
\* parse gives the default metadata, which has no image.
FetchMetadata ==
    /\ pc = "metadata"
    /\ calls' = Append(calls, "metadata")
    /\ \E outcome \in {"error", "no_image", "image"} :
        /\ metaImage' = (outcome = "image")
        /\ failed' = IF outcome = "error" THEN failed \cup {"metadata"} ELSE failed
        /\ pc' = IF outcome = "image" THEN "download" ELSE "create_record"
    /\ UNCHANGED <<fileVars, exitCode, histVars, nextIndex, textVars, image, attempts,
                   processed, upload, blob>>

\* upload_image_blob, lines 364-370; a failed download is caught at line 396.
Download ==
    /\ pc = "download"
    /\ calls' = Append(calls, "download")
    /\ \/ /\ failed' = failed \cup {"download"}
          /\ pc' = "create_record"
          /\ UNCHANGED image
       \/ \E size \in ImageSizes, declared \in DeclaredTypes :
            /\ image' = [data |-> Downloaded(size), declared |-> declared]
            /\ pc' = "resize"
            /\ UNCHANGED failed
    /\ UNCHANGED <<fileVars, exitCode, histVars, nextIndex, textVars, metaImage,
                   attempts, processed, upload, blob>>

\* resize_image_if_needed, lines 285-307: data within the limit is returned as it
\* is; otherwise the image is opened, and a failure to open or convert it returns
\* the original data (line 358).
ResizeCheck ==
    /\ pc = "resize"
    /\ IF Fits(image.data.size)
       THEN processed' = image.data /\ pc' = "upload" /\ UNCHANGED failed
       ELSE \/ pc' = "encode" /\ UNCHANGED <<processed, failed>>
            \/ /\ processed' = image.data
               /\ failed' = failed \cup {"encode"}
               /\ pc' = "upload"
    /\ UNCHANGED <<fileVars, exitCode, histVars, nextIndex, textVars, metaImage, image,
                   attempts, upload, blob, calls>>

\* resize_image_if_needed, lines 328-353: one turn of the loop over the strategies,
\* and the return after the last one. An exception in resize or save returns the
\* original data (line 358).
EncodeAttempt ==
    /\ pc = "encode"
    /\ LET k == Len(attempts) + 1 IN
        \/ \E size \in EncodedSizes :
            /\ attempts' = Append(attempts, [strategy |-> strategies[k], size |-> size])
            /\ IF Fits(size) \/ k = Len(strategies)
               THEN processed' = Encoded(k, size) /\ pc' = "upload"
               ELSE UNCHANGED <<processed, pc>>
            /\ UNCHANGED failed
        \/ /\ processed' = image.data
           /\ failed' = failed \cup {"encode"}
           /\ pc' = "upload"
           /\ UNCHANGED attempts
    /\ UNCHANGED <<fileVars, exitCode, histVars, nextIndex, textVars, metaImage, image,
                   upload, blob, calls>>

\* upload_image_blob, lines 375-401
UploadBlob ==
    /\ pc = "upload"
    /\ calls' = Append(calls, "uploadBlob")
    /\ upload' = [sent |-> TRUE, body |-> processed,
                  ctype |-> content_type(image.declared)]
    /\ \E ok \in BOOLEAN :
        /\ blob' = ok
        /\ failed' = IF ok THEN failed ELSE failed \cup {"upload"}
    /\ pc' = "create_record"
    /\ UNCHANGED <<fileVars, exitCode, histVars, nextIndex, textVars, metaImage, image,
                   attempts, processed>>

\* post_to_bluesky returns False when the record is refused, and main goes on.
CreateRecordNoExit ==
    /\ pc = "create_record"
    /\ calls' = Append(calls, "createRecord")
    /\ \E ok \in BOOLEAN :
        /\ failed' = IF ok THEN failed ELSE failed \cup {"createRecord"}
        /\ pc' = "update_state"
    /\ UNCHANGED <<fileVars, exitCode, histVars, nextIndex, textVars, imageVars>>

\* post_to_bluesky, lines 456-474
CreateRecord ==
    /\ pc = "create_record"
    /\ calls' = Append(calls, "createRecord")
    /\ \E ok \in BOOLEAN :
        IF ok
        THEN pc' = "update_state" /\ UNCHANGED <<exitCode, histVars, failed>>
        ELSE Abort("createRecord")
    /\ UNCHANGED <<fileVars, nextIndex, textVars, imageVars>>

\* main, line 52, with update_state. A failed open leaves the file as it was, a
\* failed write leaves it truncated.
UpdateState ==
    /\ pc = "update_state"
    /\ \/ /\ stateFile' = WrittenState(nextIndex)
          /\ streak' = Append(streak, nextIndex)
          /\ lastFail' = -1
          /\ pc' = "commit"
          /\ UNCHANGED <<exitCode, streakStart, failed>>
       \/ /\ stateFile' \in {stateFile, [kind |-> "invalid_json", idx |-> 0]}
          /\ failed' = failed \cup {"update_state"}
          /\ pc' = "done"
          /\ exitCode' = 1
          /\ lastFail' = -1
          /\ streak' = <<>>
          /\ UNCHANGED streakStart
    /\ UNCHANGED <<posts, creds, runStart, nextIndex, textVars, imageVars, calls>>

\* main, line 55, with commit_changes: os.system does not raise, whatever git
\* answers, and main returns.
CommitChanges ==
    /\ pc = "commit"
    /\ \E pushed \in BOOLEAN :
        failed' = IF pushed THEN failed ELSE failed \cup {"commit"}
    /\ pc' = "done"
    /\ exitCode' = 0
    /\ UNCHANGED <<fileVars, histVars, nextIndex, textVars, imageVars, calls>>

\* The scheduler starts the next run, on the files the last one left.
StartRun ==
    /\ pc = "done"
    /\ pc' = "start"
    /\ exitCode' = -1
    /\ nextIndex' = -1
    /\ post' = NoPost
    /\ content' = <<>>
    /\ facets' = <<>>
    /\ metaImage' = FALSE
    /\ image' = NoImage
    /\ attempts' = <<>>
    /\ processed' = NoBytes
    /\ upload' = NoUpload
    /\ blob' = FALSE
    /\ calls' = <<>>
    /\ failed' = {}
    /\ creds' \in BOOLEAN
    /\ runStart' = stateFile
    /\ IF streak = <<>> \/ Len(streak) >= Len(posts)
       THEN streak' = <<>> /\ streakStart' = last_index(stateFile)
       ELSE UNCHANGED <<streak, streakStart>>
    /\ UNCHANGED <<posts, stateFile, lastFail>>

Next ==
    \/ CheckEnv
    \/ LoadPosts
    \/ SelectPost
    \/ Compose
    \/ Authenticate
    \/ BuildPost
    \/ FetchMetadata
    \/ Download
    \/ ResizeCheck
    \/ EncodeAttempt
    \/ UploadBlob
    \/ CreateRecord
    \/ UpdateState
    \/ CommitChanges
    \/ StartRun

Spec == Init /\ [][Next]_vars

(***************************************************************************)
(* create_post_content on its own, over rows of every length               *)
(***************************************************************************)

EcoUrl == <<"h", "t", "t", "p", "s", ":", "/", "/", "e", ".", "c", "o">>

\* "#a " * k
TagRun(k) == [i \in 1..(3 * k) |-> <<"#", "a", " ">>[((i - 1) % 3) + 1]]

ComposeTitles ==
    {Repeat("a", n) : n \in {1, 2, 250, 270, 283, 284, 285, 286, 287, 290, 300}}
        \cup {<<" ">>, <<" ", "T", "\n">>, <<"GRIN", "T">>}
ComposeUrls == {EcoUrl \o Repeat("x", m) : m \in {0, 1, 2, 3, 200}} \cup {<<>>, <<" ">>}
ComposeHashtags == {TagRun(k) : k \in {0, 1, 2, 5, 100}} \cup {<<"#", "a", " ", "#", "b">>}

ComposeInit ==
    /\ pc = "compose_input"
    /\ post \in [title : ComposeTitles, url : ComposeUrls, hashtags : ComposeHashtags]
    /\ posts = <<>>
    /\ stateFile = [kind |-> "absent", idx |-> 0]
    /\ creds = TRUE
    /\ exitCode = -1
    /\ nextIndex = 0
    /\ content = <<>>
    /\ facets = <<>>
    /\ metaImage = FALSE
    /\ image = NoImage
    /\ attempts = <<>>
    /\ processed = NoBytes
    /\ upload = NoUpload
    /\ blob = FALSE
    /\ calls = <<>>
    /\ failed = {}
    /\ runStart = stateFile
    /\ lastFail = -1
    /\ streakStart = -1
    /\ streak = <<>>

\* create_post_content(post, next_index): sys.exit(1) or the text.
ComposeOnly ==
    /\ pc = "compose_input"
    /\ IF MissingField(post)
       THEN pc' = "rejected" /\ exitCode' = 1 /\ UNCHANGED content
       ELSE pc' = "composed" /\ content' = create_post_content(post) /\ UNCHANGED exitCode
    /\ UNCHANGED <<fileVars, histVars, nextIndex, post, facets, imageVars, calls, failed>>

SpecCompose == ComposeInit /\ [][ComposeOnly]_vars

(***************************************************************************)
(* The two facet passes on their own, over texts built from segments       *)
(***************************************************************************)

\* The most segments a text is built from.
MaxSegs == 4

Segments ==
    {<<"S", "e", "e", " ">>,
     <<"#", "x">>,
     <<" ", "a", "t", " ">>,
     <<"h", "t", "t", "p", "s", ":", "/", "/", "a", ".", "b", "/", "c", "#", "y">>,
     <<"GRIN">>,
     <<"EACUTE">>,
     <<"EURO">>,
     <<"\n", "\n">>,
     <<"h", "t", "t", "p", ":", "/", "/">>}

RECURSIVE Flatten(_)
Flatten(ss) == IF ss = <<>> THEN <<>> ELSE Head(ss) \o Flatten(Tail(ss))

Texts == {Flatten(ss) : ss \in UNION {[1..n -> Segments] : n \in 0..MaxSegs}}

FacetInit ==
    /\ pc = "facet_input"
    /\ content \in Texts
    /\ post = NoPost
    /\ posts = <<>>
    /\ stateFile = [kind |-> "absent", idx |-> 0]
    /\ creds = TRUE
    /\ exitCode = -1
    /\ nextIndex = 0
    /\ facets = <<>>
    /\ metaImage = FALSE
    /\ image = NoImage
    /\ attempts = <<>>
    /\ processed = NoBytes
    /\ upload = NoUpload
    /\ blob = FALSE
    /\ calls = <<>>
    /\ failed = {}
    /\ runStart = stateFile
    /\ lastFail = -1
    /\ streakStart = -1
    /\ streak = <<>>

\* post_to_bluesky, lines 413-415
ExtractOnly ==
    /\ pc = "facet_input"
    /\ facets' = all_facets(content)
    /\ pc' = "extracted"
    /\ UNCHANGED <<fileVars, histVars, exitCode, nextIndex, post, content, imageVars,
                   calls, failed>>

SpecFacets == FacetInit /\ [][ExtractOnly]_vars

(***************************************************************************)
(* Properties                                                              *)
(***************************************************************************)

Range(f) == {f[i] : i \in DOMAIN f}

\* The run has made the createRecord call and it was accepted.
Posted == calls # <<>> /\ calls[Len(calls)] = "createRecord" /\ "createRecord" \notin failed

\* C1: with N rows and a persisted last index in -1..N-1, the run selects the index
\* after it, wrapping from N-1 to 0; and N successful runs in a row post each of
\* 0..N-1 once and leave the persisted index where it started (-1 counting as N-1).
C1_RoundRobin ==
    LET N == Len(posts)
        last == last_index(runStart)
    IN  /\ (nextIndex # -1 /\ last \in -1..(N - 1)) =>
            /\ nextIndex \in 0..(N - 1)
            /\ nextIndex = IF last = N - 1 THEN 0 ELSE last + 1
        /\ (N > 0 /\ Len(streak) = N /\ streakStart \in -1..(N - 1)) =>
            /\ Range(streak) = 0..(N - 1)
            /\ \A i, j \in 1..N : streak[i] = streak[j] => i = j
            /\ stateFile = WrittenState(IF streakStart = -1 THEN N - 1 ELSE streakStart)

\* Three successful runs over three rows, begun in the middle of the cycle.
C1_Witness ==
    /\ Len(posts) = 3
    /\ streakStart = 1
    /\ streak = <<2, 0, 1>>
    /\ pc = "done"

\* C2: state.json differs from what the run found only once its createRecord call
\* was accepted; a run that ends with status 1 for any reason before that leaves it
\* as it was, and the run after a failed one selects the same index again.
C2_StateWrittenOnlyAfterPost ==
    /\ stateFile # runStart => (Posted /\ pc \in {"commit", "done"})
    /\ (pc = "done" /\ exitCode = 1 /\ "update_state" \notin failed) =>
            stateFile = runStart
    /\ (pc = "done" /\ ~Posted) => stateFile = runStart
    /\ (nextIndex # -1 /\ lastFail # -1) => nextIndex = lastFail

\* A run that selects index 1 again after a run that failed at createRecord on it.
C2_Witness ==
    /\ pc = "compose"
    /\ lastFail = 1
    /\ nextIndex = 1
    /\ stateFile = runStart

\* state.json holds something other than an object with an integer last_row_index.
BadStateFile(f) == f.kind # "object_int_index"

\* C3: whatever a bad state.json holds, the run goes on from the sentinel -1 to
\* index 0, and never ends with a non-zero status because of it.
C3_BadStateStartsOver ==
    BadStateFile(runStart) =>
        /\ "state" \notin failed
        /\ pc \notin {"start", "load_posts", "load_state", "done"} => nextIndex = 0

\* The catalog was read and has no rows, and the run is over.
EmptyCatalogRun ==
    pc = "done" /\ Len(posts) = 0 /\ "catalog" \notin failed

\* C4, as stated: an empty catalog ends the run with status 0, no network call and
\* no write of state.json, with or without credentials.
C4_EmptyCatalogAlwaysExitsZero ==
    EmptyCatalogRun => (exitCode = 0 /\ calls = <<>> /\ stateFile = runStart)

\* C4, amended: an empty catalog ends the run with no network call and no write of
\* state.json; the status is 0 when both credentials are set and 1 when one is
\* missing, the credentials being checked before the catalog is read.
C4_EmptyCatalog ==
    EmptyCatalogRun =>
        /\ calls = <<>>
        /\ stateFile = runStart
        /\ exitCode = IF creds THEN 0 ELSE 1

\* An empty catalog, credentials set, a state file on disk: status 0.
C4_Witness ==
    /\ EmptyCatalogRun
    /\ creds
    /\ exitCode = 0
    /\ stateFile.kind = "object_int_index"

\* C5: the text composed from a row with a title and a url has at most 300
\* characters.
C5_ComposedWithinLimit ==
    pc = "composed" => Len(content) <= PostLimit

\* The UTF-8 length of a character, from its code point.
Utf8Width(c) ==
    LET cp == CodePoint[c]
    IN  IF cp <= 127 THEN 1 ELSE IF cp <= 2047 THEN 2 ELSE IF cp <= 65535 THEN 3 ELSE 4

RECURSIVE Utf8Length(_)
Utf8Length(s) == IF s = <<>> THEN 0 ELSE Utf8Width(Head(s)) + Utf8Length(Tail(s))

\* The text a facet annotates: the url, or '#' and the tag.
Matched(f) == IF f.type = "link" THEN f.value ELSE <<"#">> \o f.value

\* C6: every facet's byteStart is the UTF-8 length of the text before its match and
\* its byteEnd the UTF-8 length of the text up to the end of the match, so the bytes
\* of the encoded text between them are the bytes of the match, and
\* byteStart < byteEnd <= the length of the encoded text.
C6_FacetByteOffsets ==
    pc = "extracted" =>
        \A k \in 1..Len(facets) :
            LET f == facets[k]
                m == Matched(f)
                bytes == Utf8(content)
            IN  /\ f.byteStart < f.byteEnd
                /\ f.byteEnd <= Len(bytes)
                /\ SubSeq(bytes, f.byteStart + 1, f.byteEnd) = Utf8(m)
                /\ \E i \in 0..Len(content) :
                    /\ SubSeq(content, i + 1, i + Len(m)) = m
                    /\ f.byteStart = Utf8Length(SubSeq(content, 1, i))
                    /\ f.byteEnd = Utf8Length(SubSeq(content, 1, i + Len(m)))

\* A tag and a link that both follow characters of four and two bytes.
C6_Witness ==
    /\ pc = "extracted"
    /\ Len(content) >= 2
    /\ content[1] = "GRIN"
    /\ content[2] = "EACUTE"
    /\ \E k \in 1..Len(facets) : facets[k].type = "link" /\ facets[k].byteStart >= 6
    /\ \E k \in 1..Len(facets) : facets[k].type = "tag" /\ facets[k].byteStart >= 6

\* 'See #x at https://a.b/c#y'
SeeText ==
    <<"S", "e", "e", " ", "#", "x", " ", "a", "t", " ",
      "h", "t", "t", "p", "s", ":", "/", "/", "a", ".", "b", "/", "c", "#", "y">>

\* C7: no tag facet lies inside a link facet, the link facets come before the tag
\* facets, and 'See #x at https://a.b/c#y' gives one link facet, the url, followed
\* by one tag facet, x.
C7_TagsOutsideLinks ==
    pc = "extracted" =>
        /\ \A i, j \in 1..Len(facets) :
            (facets[i].type = "link" /\ facets[j].type = "tag") =>
                /\ i < j
                /\ \/ facets[j].byteEnd <= facets[i].byteStart
                   \/ facets[j].byteStart >= facets[i].byteEnd
        /\ content = SeeText =>
            /\ Len(facets) = 2
            /\ facets[1].type = "link" /\ facets[1].value = SubSeq(SeeText, 11, 25)
            /\ facets[2].type = "tag" /\ facets[2].value = <<"x">>

\* C8: a downloaded image within the limit is uploaded as it is, under the content
\* type its download declared.
C8_SmallImageUploadedAsDeclared ==
    (upload.sent /\ image.data.size <= MAX_IMAGE_SIZE) =>
        /\ upload.body = image.data
        /\ upload.ctype = original_content_type(image.declared)

SoftFailures == {"metadata", "download", "encode", "upload", "commit"}

\* C9: a run that met a failed metadata fetch, image download, re-encoding, blob
\* upload or commit/push still made the createRecord call, and when that call was
\* accepted and state.json could be written, state.json holds the posted index and
\* the status is 0; no status 1 comes from these failures alone.
C9_SoftFailuresDoNotAbort ==
    /\ (pc = "done" /\ failed \cap SoftFailures # {}) => "createRecord" \in Range(calls)
    /\ (pc = "done" /\ Posted /\ "update_state" \notin failed) =>
            (stateFile = WrittenState(nextIndex) /\ exitCode = 0)
    /\ exitCode = 1 => failed \ SoftFailures # {}

\* A posted run whose re-encoding, blob upload and push all failed.
C9_Witness ==
    /\ pc = "done"
    /\ exitCode = 0
    /\ failed = {"encode", "upload", "commit"}
    /\ stateFile = WrittenState(nextIndex)
    /\ runStart # stateFile

\* The (resizeFactor, quality) pairs in the order the search is to try them, the
\* factor in tenths.
SearchOrder ==
    <<<<10, 70>>, <<10, 60>>, <<10, 50>>, <<9, 85>>, <<8, 85>>, <<7, 80>>, <<6, 80>>,
      <<5, 75>>, <<4, 70>>, <<3, 65>>>>

\* C10: for a downloaded image over the limit that opens and encodes, the attempts
\* are the pairs of the table in order; every attempt but the last is over the
\* limit; what is returned is the last attempt, which is within the limit unless it
\* is the tenth; and the upload is made with it.
C10_GreedySearch ==
    LET n == Len(attempts) IN
    /\ \A k \in 1..n :
        /\ k <= Len(SearchOrder)
        /\ attempts[k].strategy.resize_factor = SearchOrder[k][1]
        /\ attempts[k].strategy.quality = SearchOrder[k][2]
    /\ \A k \in 1..(n - 1) : attempts[k].size > MAX_IMAGE_SIZE
    /\ (pc = "encode" /\ n > 0) => attempts[n].size > MAX_IMAGE_SIZE /\ n < 10
    /\ (/\ pc \in {"upload", "create_record", "update_state", "commit", "done"}
        /\ image.data.size > MAX_IMAGE_SIZE
        /\ "encode" \notin failed) =>
            /\ n >= 1
            /\ processed = Encoded(n, attempts[n].size)
            /\ attempts[n].size > MAX_IMAGE_SIZE => n = 10
            /\ (\E k \in 1..n : attempts[k].size <= MAX_IMAGE_SIZE) =>
                    processed.size <= MAX_IMAGE_SIZE
            /\ pc # "upload" => (upload.sent /\ upload.body = processed)

\* The fourth pair is the first to fit: it is returned and uploaded.
C10_Witness ==
    /\ pc = "done"
    /\ Len(attempts) = 4
    /\ processed = Encoded(4, MAX_IMAGE_SIZE)
    /\ upload.sent
    /\ upload.body = processed

\* The place of each network call in the order a run is to make them.
CallRank(c) ==
    CASE c = "createSession" -> 0
      [] c = "metadata" -> 1
      [] c = "download" -> 2
      [] c = "uploadBlob" -> 3
      [] c = "createRecord" -> 4

\* C11: in a run, the metadata fetch, the image download, the blob upload and the
\* record submission each happen at most once and in that order; the download
\* follows a metadata fetch that found an image, the upload follows the download,
\* and nothing follows the record submission.
C11_CallsOnceInOrder ==
    /\ \A i, j \in 1..Len(calls) : i < j => CallRank(calls[i]) < CallRank(calls[j])
    /\ "download" \in Range(calls) => ("metadata" \in Range(calls) /\ metaImage)
    /\ "uploadBlob" \in Range(calls) =>
            ("download" \in Range(calls) /\ "download" \notin failed)
    /\ "createRecord" \in Range(calls) => calls[Len(calls)] = "createRecord"
    /\ (pc \in {"update_state", "commit"} \/ (pc = "done" /\ Posted)) =>
            "createRecord" \in Range(calls)

\* A posted run that made all four calls.
C11_Witness ==
    /\ pc = "done"
    /\ exitCode = 0
    /\ calls = <<"createSession", "metadata", "download", "uploadBlob", "createRecord">>

====
